---- MODULE Spec2Model ----
(***************************************************************************)
(* A model of nist_lookup: the NIST form-factor table pipeline             *)
(* (src/nist_lookup/nist_lookup.py), the materials registry and the        *)
(* attenuation aggregation (src/nist_lookup/materials.py) and the          *)
(* refractive-index calculation (src/nist_lookup/xraydb_plugin.py).        *)
(*                                                                         *)
(* Texts are sequences of lexemes (strings): single characters, and, where *)
(* the code never looks inside them, whole words, numerals and HTML tags.  *)
(* Real numbers are exact: a finite number is (n/d) * 10^e times a         *)
(* monomial u in the physical constants, which stay symbolic.              *)
(***************************************************************************)
EXTENDS Integers, Sequences, FiniteSets, TLC

VARIABLES text, pc, table, density, output, error, graph,
          store, adds, ret,
          xdb, prev, last,
          gd,
          procs

nistVars == <<text, pc, table, density, output, error, graph>>
matVars == <<store, adds, ret>>
xrayVars == <<xdb, prev, last>>
scanVars == <<gd>>
addVars == <<procs>>
vars == <<text, pc, table, density, output, error, graph, store, adds, ret, xdb, prev, last,
         gd, procs>>

(***************************************************************************)
(* Exact arithmetic standing for Python's float arithmetic.                *)
(***************************************************************************)

\* The physical constants the code multiplies by; they are kept as symbols.
Consts == {"N_A", "r_e", "hc", "pi"}

NoUnit == [c \in Consts |-> 0]

RECURSIVE GCD(_, _)
GCD(a, b) == IF b = 0 THEN a ELSE GCD(b, a % b)

Abs(n) == IF n < 0 THEN -n ELSE n

Zero == [k |-> "fin", n |-> 0, d |-> 1, e |-> 0, u |-> NoUnit]
Inf(sign) == [k |-> "inf", n |-> sign, d |-> 1, e |-> 0, u |-> NoUnit]
NaN == [k |-> "nan", n |-> 0, d |-> 1, e |-> 0, u |-> NoUnit]

\* Move the factors 2 and 5 of the denominator into the power of ten.
RECURSIVE ClearDen(_, _, _)
ClearDen(n, d, e) ==
    IF d % 2 = 0 THEN ClearDen(n * 5, d \div 2, e - 1)
    ELSE IF d % 5 = 0 THEN ClearDen(n * 2, d \div 5, e - 1)
    ELSE <<n, d, e>>

\* Move the factors 10 of the numerator into the power of ten.
RECURSIVE ClearNum(_, _)
ClearNum(n, e) ==
    IF n # 0 /\ n % 10 = 0 THEN ClearNum(n \div 10, e + 1) ELSE <<n, e>>

\* The one representation of (n/d) * 10^e * u, d # 0.
Fin(n, d, e, u) ==
    IF n = 0 THEN Zero
    ELSE LET g == GCD(Abs(n), Abs(d))
             s == IF d < 0 THEN -1 ELSE 1
             c == ClearDen(s * (n \div g), Abs(d) \div g, e)
             m == ClearNum(c[1], c[3])
         IN  [k |-> "fin", n |-> m[1], d |-> c[2], e |-> m[2], u |-> u]

Int2Num(n) == Fin(n, 1, 0, NoUnit)
Pow10(e) == Fin(1, 1, e, NoUnit)
Sym(c) == Fin(1, 1, 0, [x \in Consts |-> IF x = c THEN 1 ELSE 0])

IsZero(a) == a.k = "fin" /\ a.n = 0
Sign(a) == IF a.n < 0 THEN -1 ELSE 1

RECURSIVE Ten(_)
Ten(e) == IF e = 0 THEN 1 ELSE 10 * Ten(e - 1)

\* a * b, with IEEE's rules for the infinities and NaN.
Mul(a, b) ==
    IF a.k = "nan" \/ b.k = "nan" THEN NaN
    ELSE IF a.k = "inf" \/ b.k = "inf"
         THEN IF IsZero(a) \/ IsZero(b) THEN NaN ELSE Inf(Sign(a) * Sign(b))
    ELSE Fin(a.n * b.n, a.d * b.d, a.e + b.e, [c \in Consts |-> a.u[c] + b.u[c]])

\* a + b; the terms of a sum carry the same monomial.
Add(a, b) ==
    IF a.k = "nan" \/ b.k = "nan" THEN NaN
    ELSE IF a.k = "inf" /\ b.k = "inf" THEN (IF a.n = b.n THEN a ELSE NaN)
    ELSE IF a.k = "inf" THEN a
    ELSE IF b.k = "inf" THEN b
    ELSE IF IsZero(a) THEN b
    ELSE IF IsZero(b) THEN a
    ELSE LET e == IF a.e < b.e THEN a.e ELSE b.e
             an == a.n * Ten(a.e - e)
             bn == b.n * Ten(b.e - e)
         IN  Fin(an * b.d + bn * a.d, a.d * b.d, e, a.u)

\* a / b for b that is not zero.
Div(a, b) ==
    IF a.k = "nan" \/ b.k = "nan" THEN NaN
    ELSE IF a.k = "inf" THEN (IF b.k = "inf" THEN NaN ELSE Inf(Sign(a) * Sign(b)))
    ELSE IF b.k = "inf" THEN Zero
    ELSE Fin(a.n * b.d, a.d * b.n, a.e - b.e, [c \in Consts |-> a.u[c] - b.u[c]])

(***************************************************************************)
(* Python's str and float built-ins, on lexeme sequences.                  *)
(***************************************************************************)

Ok(v) == [err |-> "none", val |-> v]
Raise(e) == [err |-> e, val |-> <<>>]

\* needle in hay: the substring test.
FindFrom(needle, hay, i) ==
    \E j \in i..(Len(hay) - Len(needle) + 1) : SubSeq(hay, j, j + Len(needle) - 1) = needle

IsIn(needle, hay) == FindFrom(needle, hay, 1)

\* The pieces of s between the lexemes of seps; empty pieces are kept.
\* The split goes on at place i of s, with cur as the piece read so far.
SplitOn(s, seps, i, cur) ==
    LET at == SelectSeq([j \in 1..Len(s) |-> j], LAMBDA j : j >= i /\ s[j] \in seps)
    IN  [k \in 1..(Len(at) + 1) |->
            (IF k = 1 THEN cur ELSE <<>>)
            \o SubSeq(s, IF k = 1 THEN i ELSE at[k - 1] + 1,
                         IF k > Len(at) THEN Len(s) ELSE at[k] - 1)]

NonEmpty(pieces) == SelectSeq(pieces, LAMBDA p : p # <<>>)

\* str.splitlines(): the lines without their line ends; no empty last line.
splitlines(s) ==
    LET pieces == SplitOn(s, {"\n"}, 1, <<>>)
    IN  IF pieces[Len(pieces)] = <<>> THEN SubSeq(pieces, 1, Len(pieces) - 1) ELSE pieces

Whitespace == {" ", "\t", "\n"}

\* str.split(): the runs of lexemes that are not whitespace.
split(s) == NonEmpty(SplitOn(s, Whitespace, 1, <<>>))

\* The numerals of the model's texts and the numbers they denote.
Numerals ==
    [s \in {"0", "1", "2", "3", "4", "5", "6", "7", "8", "9"} |->
        CASE s = "0" -> 0 [] s = "1" -> 1 [] s = "2" -> 2 [] s = "3" -> 3
          [] s = "4" -> 4 [] s = "5" -> 5 [] s = "6" -> 6 [] s = "7" -> 7
          [] s = "8" -> 8 [] s = "9" -> 9]

\* float(tok) of a token (a run of lexemes): digits, with at most one point.
RECURSIVE DigitsValue(_, _, _)
DigitsValue(tok, i, acc) ==
    IF i > Len(tok) THEN acc ELSE DigitsValue(tok, i + 1, 10 * acc + Numerals[tok[i]])

float(tok) ==
    LET parts == SplitOn(tok, {"."}, 1, <<>>)
        digits == SelectSeq(tok, LAMBDA c : c # ".")
    IN  IF Len(parts) <= 2 /\ digits # <<>> /\ \A i \in 1..Len(digits) : digits[i] \in DOMAIN Numerals
        THEN Ok(Fin(DigitsValue(digits, 1, 0), 1,
                    IF Len(parts) = 2 THEN -Len(parts[2]) ELSE 0, NoUnit))
        ELSE Raise("ValueError")

(***************************************************************************)
(* The payloads the remote service may answer with.                        *)
(***************************************************************************)

\* Bounds of the model.
MaxTextLen == 6
MaxRows == 3

ErrorMarker == <<"E", "r", "r", "o", "r">>
DensityMarker == <<"Nominal", " ", "density">>

\* Short texts around the error marker: near misses, other case, other places.
CheckTexts == UNION {[1..n -> {"E", "e", "r", "o"}] : n \in 0..MaxTextLen}

Notices == {<<>>, ErrorMarker \o <<"\n">>}

DensityLines ==
    { <<>>,
      <<"2", "8", " ", "Nominal", " ", "density", " ", "2", ".", "5", "\n">>,
      <<"2", "8", " ", "Nominal", " ", "density", " ", "2", ".", "5", "\n",
        "4", " ", "Nominal", " ", "density", " ", "1", "\n">>,
      <<"N", "i", " ", "Nominal", " ", "density", " ", "2", "\n">>,
      <<"0", " ", "Nominal", " ", "density", " ", "2", "\n">>,
      <<"2", "8", " ", "density", " ", "2", "\n">> }

\* The cells of the data row at position i: energy, f1, f2, (mu,) wavelength.
Energies == << <<"1", "0">>, <<"2", "0">>, <<"3", "0">>, <<"4", "0">>, <<"5", "0">> >>
F1s == << <<"1", "4">>, <<"1", "3", ".", "5">>, <<"1", "3">>, <<"1", "2">>, <<"1", "1">> >>
F2s == << <<"3">>, <<"1", ".", "5">>, <<"0">>, <<"0", ".", "5">>, <<"0", ".", "2">> >>
Mus == << <<"7">>, <<"6">>, <<"5">>, <<"4">>, <<"3">> >>
Wavelengths == << <<"0", ".", "8">>, <<"0", ".", "4">>, <<"0", ".", "2">>, <<"0", ".", "1">>,
                  <<"0", ".", "0", "5">> >>

RowKinds == {"head", "d4", "d5"}

Cell(c) == <<"<td>">> \o c \o <<"</td>">>

RenderRow(kind, i) ==
    <<"<tr>">>
    \o (CASE kind = "head" -> <<"<th>", "keV", "</th>">>
          [] kind = "d4" -> Cell(Energies[i]) \o Cell(F1s[i]) \o Cell(F2s[i]) \o Cell(Wavelengths[i])
          [] kind = "d5" -> Cell(Energies[i]) \o Cell(F1s[i]) \o Cell(F2s[i]) \o Cell(Mus[i])
                            \o Cell(Wavelengths[i]))
    \o <<"</tr>", "\n">>

RECURSIVE RenderRows(_, _)
RenderRows(kinds, i) ==
    IF i > Len(kinds) THEN <<>> ELSE RenderRow(kinds[i], i) \o RenderRows(kinds, i + 1)

RowSeqs == UNION {[1..n -> RowKinds] : n \in 0..MaxRows}

Pages ==
    { n \o d \o <<"<table>", "\n">> \o RenderRows(k, 1) \o <<"</table>", "\n">> :
        n \in Notices, d \in DensityLines, k \in RowSeqs }

Payloads == CheckTexts \cup Pages

(***************************************************************************)
(* BeautifulSoup, as far as parse_table uses it.                           *)
(***************************************************************************)

\* The first place of x in s from place i on; Len(s) + 1 when there is none.
IndexFrom(s, x, i) ==
    IF \E j \in i..Len(s) : s[j] = x
    THEN CHOOSE j \in i..Len(s) : s[j] = x /\ \A q \in i..(j - 1) : s[q] # x
    ELSE Len(s) + 1

\* The contents of the elements opened by tag open, in document order.
RECURSIVE findAll(_, _, _, _)
findAll(s, open, close, i) ==
    LET a == IndexFrom(s, open, i)
        b == IndexFrom(s, close, a + 1)
    IN  IF a > Len(s) THEN <<>>
        ELSE <<SubSeq(s, a + 1, b - 1)>> \o findAll(s, open, close, b + 1)

Tags == {"<table>", "</table>", "<tr>", "</tr>", "<td>", "</td>", "<th>", "</th>"}

\* cell.find(text=True): the first text node of the cell (empty when it has none).
find_text(cell) ==
    LET j == CHOOSE j \in 1..(Len(cell) + 1) :
                 /\ \A i \in 1..(j - 1) : cell[i] \notin Tags
                 /\ (j <= Len(cell) => cell[j] \in Tags)
    IN  SubSeq(cell, 1, j - 1)

(***************************************************************************)
(* src/nist_lookup/nist_lookup.py                                          *)
(***************************************************************************)

\* check_page looking for the marker at the start of the text only.
check_page_startswith(t) ==
    IF Len(t) >= Len(ErrorMarker) /\ SubSeq(t, 1, Len(ErrorMarker)) = ErrorMarker
    THEN "NistPageError" ELSE "none"

\* check_page(text): the exception raised, "none" when it returns.
check_page(t) == IF IsIn(ErrorMarker, t) THEN "NistPageError" ELSE "none"

\* get_density(text): the first marker line decides; without one the local
\* atoms_per_unit_volume is read unbound.
\* The body of the loop for a line that holds the marker.
DensityOfLine(l) ==
    LET line == split(l)
        atomic_weight == float(line[1])
        dens == float(line[Len(line)])
    IN  IF atomic_weight.err # "none" THEN Raise(atomic_weight.err)
        ELSE IF dens.err # "none" THEN Raise(dens.err)
        ELSE IF IsZero(atomic_weight.val) THEN Raise("ZeroDivisionError")
        ELSE Ok(Div(Mul(Sym("N_A"), dens.val), atomic_weight.val))

RECURSIVE DensityLoop(_, _)
DensityLoop(lines, i) ==
    IF i > Len(lines) THEN Raise("UnboundLocalError")
    ELSE IF IsIn(DensityMarker, lines[i]) THEN DensityOfLine(lines[i])
    ELSE DensityLoop(lines, i + 1)

get_density(t) == DensityLoop(splitlines(t), 1)

\* The inner loop of parse_table over the kept cells of one row: the row object
\* objs[Len(objs)] grows by one field and is appended to the table once per cell.
RECURSIVE CellLoop(_, _, _, _)
CellLoop(cols, i, objs, refs) ==
    IF i > Len(cols) THEN <<objs, refs>>
    ELSE LET r == Len(objs)
         IN  CellLoop(cols, i + 1, [objs EXCEPT ![r] = Append(@, find_text(cols[i]))],
                      Append(refs, r))

\* The outer loop of parse_table; objs are the table_row lists made so far and
\* refs the references to them that table holds.
RECURSIVE RowLoop(_, _, _, _)
RowLoop(rows, j, objs, refs) ==
    IF j > Len(rows) THEN <<objs, refs>>
    ELSE LET cols == findAll(rows[j], "<td>", "</td>", 1)
         IN  IF cols = <<>> THEN RowLoop(rows, j + 1, objs, refs)
             ELSE LET kept == SubSeq(cols, 1, IF Len(cols) < 3 THEN Len(cols) ELSE 3)
                              \o <<cols[Len(cols)]>>
                      r == CellLoop(kept, 1, Append(objs, <<>>), refs)
                  IN  RowLoop(rows, j + 1, r[1], r[2])

parse_table(t) ==
    LET tables == findAll(t, "<table>", "</table>", 1)
    IN  IF tables = <<>> THEN Raise("AttributeError")
        ELSE LET r == RowLoop(findAll(tables[1], "<tr>", "</tr>", 1), 1, <<>>, <<>>)
             IN  Ok([i \in 1..Len(r[2]) |-> r[1][r[2][i]]])

\* What print writes: a piece of text, or the repr of a float.
Txt(str) == [t |-> "txt", s |-> str, v |-> Zero]
Repr(x) == [t |-> "num", s |-> "", v |-> x]

Header ==
    << Txt("\n"), Txt("#columns:"), Txt("\n"), Txt("#energy (keV) (from NIST)"), Txt("\n"),
       Txt("#f1 (e/atom) (from NIST)"), Txt("\n"), Txt("#f2 (e/atom) (from NIST)"), Txt("\n"),
       Txt("#wavelength (cm) (from NIST)"), Txt("\n"), Txt("#delta (calculated)"), Txt("\n"),
       Txt("#beta (calculated)"), Txt("\n"), Txt("            "), Txt("\n") >>

RECURSIVE PrintColumns(_, _)
PrintColumns(row, i) ==
    IF i > Len(row) THEN Ok(<<>>)
    ELSE LET x == float(row[i])
             rest == PrintColumns(row, i + 1)
         IN  IF x.err # "none" THEN Raise(x.err)
             ELSE IF rest.err # "none" THEN rest
             ELSE Ok(<<Repr(x.val), Txt("\t")>> \o rest.val)

\* PrintRow without the conversion of the wavelength to cm.
PrintRowNoCm(row, factor) ==
    LET cols == PrintColumns(row, 1)
    IN  IF cols.err # "none" THEN cols
        ELSE IF Len(row) < 4 THEN Raise("IndexError")
        ELSE LET f1 == float(row[2]).val
                 f2 == float(row[3]).val
                 wavelength == float(row[4]).val
                 delta == Mul(Mul(Mul(factor, wavelength), wavelength), f1)
                 beta == Mul(Mul(Mul(factor, wavelength), wavelength), f2)
             IN  Ok(cols.val \o <<Repr(delta), Txt(" "), Repr(beta), Txt("\n")>>)

\* The lines calculate_coefficients prints for one row.
PrintRow(row, factor) ==
    LET cols == PrintColumns(row, 1)
    IN  IF cols.err # "none" THEN cols
        ELSE IF Len(row) < 4 THEN Raise("IndexError")
        ELSE LET f1 == float(row[2]).val
                 f2 == float(row[3]).val
                 wavelength == Mul(float(row[4]).val, Pow10(-7))
                 delta == Mul(Mul(Mul(factor, wavelength), wavelength), f1)
                 beta == Mul(Mul(Mul(factor, wavelength), wavelength), f2)
             IN  Ok(cols.val \o <<Repr(delta), Txt(" "), Repr(beta), Txt("\n")>>)

RECURSIVE PrintRows(_, _, _)
PrintRows(tab, i, factor) ==
    IF i > Len(tab) THEN Ok(<<>>)
    ELSE LET r == PrintRow(tab[i], factor)
             rest == PrintRows(tab, i + 1, factor)
         IN  IF r.err # "none" THEN r
             ELSE IF rest.err # "none" THEN rest
             ELSE Ok(r.val \o rest.val)

calculate_coefficients(tab, dens) ==
    LET r_e == Mul(Sym("r_e"), Int2Num(100))
        factor == Mul(Div(r_e, Mul(Int2Num(2), Sym("pi"))), dens)
        rows == PrintRows(tab, 1, factor)
    IN  IF rows.err # "none" THEN rows ELSE Ok(Header \o rows.val)

\* The steps of get_formatted_table (and of bin/delta_beta_table.py), in their order.
DownloadPage ==
    /\ pc = "start"
    /\ \E t \in Payloads : text' = t
    /\ pc' = "downloaded"
    /\ UNCHANGED <<table, density, output, error, graph>>

\* CheckPage going on to the parser also when check_page has raised.
CheckPageGoesOn ==
    /\ pc = "downloaded"
    /\ error' = check_page(text)
    /\ pc' = "checked"
    /\ UNCHANGED <<text, table, density, output, graph>>

CheckPage ==
    /\ pc = "downloaded"
    /\ error' = check_page(text)
    /\ pc' = IF error' = "none" THEN "checked" ELSE "failed"
    /\ UNCHANGED <<text, table, density, output, graph>>

ParseTable ==
    /\ pc = "checked"
    /\ \E r \in {parse_table(text)} :
           /\ error' = r.err
           /\ table' = r.val
           /\ pc' = IF r.err = "none" THEN "parsed" ELSE "failed"
    /\ UNCHANGED <<text, density, output, graph>>

GetDensity ==
    /\ pc = "parsed"
    /\ \E r \in {get_density(text)} :
           /\ error' = r.err
           /\ density' = IF r.err = "none" THEN r.val ELSE density
           /\ pc' = IF r.err = "none" THEN "density" ELSE "failed"
    /\ UNCHANGED <<text, table, output, graph>>

CalculateCoefficients ==
    /\ pc = "density"
    /\ \E r \in {calculate_coefficients(table, density)} :
           /\ error' = r.err
           /\ output' = r.val
           /\ pc' = IF r.err = "none" THEN "done" ELSE "failed"
    /\ UNCHANGED <<text, table, density, graph>>

\* a < b, for finite numbers of the same monomial.
Less(a, b) == Add(a, Mul(Int2Num(-1), b)).n < 0

\* a / b as numpy divides: a zero divisor gives nan or an infinity.
NumpyDiv(a, b) ==
    IF ~IsZero(b) THEN Div(a, b)
    ELSE IF IsZero(a) \/ a.k = "nan" THEN NaN
    ELSE Inf(Sign(a))

\* The comment lines of the printed table.
Comments ==
    { Txt("#columns:"), Txt("#energy (keV) (from NIST)"), Txt("#f1 (e/atom) (from NIST)"),
      Txt("#f2 (e/atom) (from NIST)"), Txt("#wavelength (cm) (from NIST)"),
      Txt("#delta (calculated)"), Txt("#beta (calculated)") }

\* np.loadtxt(table_raw): the numbers of every line that is neither a comment
\* nor blank; lines of different lengths are an error.
loadtxt(out) ==
    LET lines == SplitOn(out, {Txt("\n")}, 1, <<>>)
        data == [i \in 1..Len(lines) |->
                    IF lines[i] # <<>> /\ lines[i][1] \in Comments THEN <<>>
                    ELSE SelectSeq(lines[i], LAMBDA x : x.t = "num")]
        rows == SelectSeq(data, LAMBDA l : l # <<>>)
    IN  IF \E i, j \in 1..Len(rows) : Len(rows[i]) # Len(rows[j]) THEN Raise("ValueError")
        ELSE Ok([i \in 1..Len(rows) |-> [c \in 1..Len(rows[i]) |-> rows[i][c].v]])

\* pts with the point p put in by its x, after the points that are not greater.
RECURSIVE Insert(_, _)
Insert(pts, p) ==
    IF pts = <<>> THEN <<p>>
    ELSE IF Less(p.x, pts[1].x) THEN <<p>> \o pts
    ELSE <<pts[1]>> \o Insert(Tail(pts), p)

\* The points sorted by x, as interp1d sorts its arguments.
RECURSIVE Sorted(_, _)
Sorted(pts, i) == IF i > Len(pts) THEN <<>> ELSE Insert(Sorted(pts, i + 1), pts[i])

\* interp1d(x, y): the interpolant, as its sorted points.
interp1d(xs, ys) ==
    IF Len(xs) < 2 THEN Raise("ValueError")
    ELSE Ok(Sorted([i \in 1..Len(xs) |-> [x |-> xs[i], y |-> ys[i]]], 1))

\* get_graph_delta (column 5) and get_graph_beta (column 6): an array of fewer
\* than two lines has no columns to slice.
get_graph(out, column) ==
    LET tab == loadtxt(out)
    IN  IF tab.err # "none" THEN tab
        ELSE IF Len(tab.val) < 2 \/ Len(tab.val[1]) < column THEN Raise("IndexError")
        ELSE interp1d([i \in 1..Len(tab.val) |-> tab.val[i][1]],
                      [i \in 1..Len(tab.val) |-> tab.val[i][column]])

\* np.searchsorted(x, x_new): how many of the sorted points lie below x_new.
searchsorted(pts, x_new) == Cardinality({i \in 1..Len(pts) : Less(pts[i].x, x_new)})

\* f(x_new) for the interpolant f of points pts: outside of the points' range
\* it raises ValueError (bounds_error), inside it is linear between neighbours.
interp_call(pts, x_new) ==
    IF Less(x_new, pts[1].x) \/ Less(pts[Len(pts)].x, x_new) THEN Raise("ValueError")
    ELSE LET s == searchsorted(pts, x_new)
             hi == (IF s < 1 THEN 1 ELSE IF s > Len(pts) - 1 THEN Len(pts) - 1 ELSE s) + 1
             lo == hi - 1
             slope == NumpyDiv(Add(pts[hi].y, Mul(Int2Num(-1), pts[lo].y)),
                               Add(pts[hi].x, Mul(Int2Num(-1), pts[lo].x)))
         IN  Ok(Add(Mul(slope, Add(x_new, Mul(Int2Num(-1), pts[lo].x))), pts[lo].y))

\* The energies (keV) the interpolants are asked for.
GraphEnergies == { Int2Num(5), Int2Num(10), Int2Num(15), Int2Num(20), Int2Num(60) }
GraphColumns == [delta |-> 5, beta |-> 6]

NoGraph == [called |-> FALSE]

\* A caller builds an interpolant from the printed table and evaluates it.
GetGraph ==
    /\ pc = "done"
    /\ ~graph.called
    /\ \E which \in DOMAIN GraphColumns :
          \E f \in {get_graph(output, GraphColumns[which])}, x \in GraphEnergies :
              \E r \in {IF f.err # "none" THEN f ELSE interp_call(f.val, x)} :
                  graph' = [called |-> TRUE, which |-> which, x |-> x, err |-> r.err,
                            val |-> IF r.err = "none" THEN r.val ELSE NaN]
    /\ UNCHANGED <<text, pc, table, density, output, error>>

NistInit ==
    /\ text = <<>>
    /\ pc = "start"
    /\ table = <<>>
    /\ density = Zero
    /\ output = <<>>
    /\ error = "none"
    /\ graph = NoGraph

(***************************************************************************)
(* get_density, step by step: the loop of the package                      *)
(* (src/nist_lookup/nist_lookup.py) and the function of the same name in   *)
(* the module src/nist_lookup.py, which calls itself.                      *)
(***************************************************************************)

\* Bound of the model: the frames the interpreter allows before it raises
\* "maximum recursion depth exceeded".
RecursionLimit == 4

Implementations == {"package", "module"}

\* A call of get_density(text) that has just been entered: i is the line the
\* loop is at, depth the frames of get_density on the stack, turns the steps
\* the call has taken.
Entered(impl, t) ==
    [impl |-> impl, lines |-> splitlines(t), i |-> 1, depth |-> 1, turns |-> 0,
     status |-> "running", err |-> "none", val |-> Zero]

NoScan == [status |-> "idle"]

Ended(r) ==
    [gd EXCEPT !.turns = gd.turns + 1,
               !.status = IF r.err = "none" THEN "returned" ELSE "raised",
               !.err = r.err,
               !.val = IF r.err = "none" THEN r.val ELSE Zero]

\* One turn of the loop of the package's get_density.
ScanLine ==
    /\ gd.status = "running" /\ gd.impl = "package"
    /\ gd.i <= Len(gd.lines)
    /\ gd' = IF IsIn(DensityMarker, gd.lines[gd.i])
             THEN [Ended(DensityOfLine(gd.lines[gd.i])) EXCEPT !.i = gd.i + 1]
             ELSE [gd EXCEPT !.i = gd.i + 1, !.turns = gd.turns + 1]

\* The loop is over without a break: the return reads an unbound local.
ScanOver ==
    /\ gd.status = "running" /\ gd.impl = "package"
    /\ gd.i > Len(gd.lines)
    /\ gd' = Ended(Raise("UnboundLocalError"))

\* The module's get_density: its first statement calls get_density(text).
CallItself ==
    /\ gd.status = "running" /\ gd.impl = "module"
    /\ gd.depth < RecursionLimit
    /\ gd' = [gd EXCEPT !.depth = gd.depth + 1, !.turns = gd.turns + 1]

\* The interpreter refuses one more frame; the exception unwinds every frame.
DepthExceeded ==
    /\ gd.status = "running" /\ gd.impl = "module"
    /\ gd.depth = RecursionLimit
    /\ gd' = Ended(Raise("RuntimeError"))

ScanInit == gd \in {Entered(impl, t) : impl \in Implementations, t \in Pages}

(***************************************************************************)
(* More of Python's str: strip, lower, replace, and the %g conversion.     *)
(***************************************************************************)

RECURSIVE lstrip(_)
lstrip(s) == IF s # <<>> /\ s[1] \in Whitespace THEN lstrip(Tail(s)) ELSE s

RECURSIVE rstrip(_)
rstrip(s) ==
    IF s # <<>> /\ s[Len(s)] \in Whitespace THEN rstrip(SubSeq(s, 1, Len(s) - 1)) ELSE s

strip(s) == rstrip(lstrip(s))

LowerOf(c) ==
    CASE c = "W" -> "w" [] c = "A" -> "a" [] c = "F" -> "f" [] c = "H" -> "h"
      [] c = "O" -> "o" [] OTHER -> c

lower(s) == [i \in 1..Len(s) |-> LowerOf(s[i])]

\* s.replace(' ', '')
RemoveSpaces(s) == SelectSeq(s, LAMBDA c : c # " ")

DigitChars == <<"0", "1", "2", "3", "4", "5", "6", "7", "8", "9">>

RECURSIVE DigitsOf(_)
DigitsOf(m) == IF m < 10 THEN <<DigitChars[m + 1]>> ELSE Append(DigitsOf(m \div 10), DigitChars[(m % 10) + 1])

Zeros(k) == [i \in 1..k |-> "0"]

\* The significant digits %g keeps.
Precision == 6

\* m * 10^e rounded to Precision significant digits (ties to even), as <<m, e>>.
RoundG(m, e) ==
    LET nd == Len(DigitsOf(m))
        k == nd - Precision
    IN  IF k <= 0 THEN <<m, e>>
        ELSE LET q == m \div Ten(k)
                 r == m % Ten(k)
                 half == 5 * Ten(k - 1)
                 up == r > half \/ (r = half /\ q % 2 = 1)
             IN  ClearNum(IF up THEN q + 1 ELSE q, e + k)

\* "%g" % x for a decimal 1e-4 <= x < 1e6 (or 0): fixed notation, six significant
\* digits, trailing zeros removed.
FormatG(x) ==
    LET r == RoundG(x.n, x.e)
        ds == DigitsOf(r[1])
        e == r[2]
    IN  IF e >= 0 THEN ds \o Zeros(e)
        ELSE IF Len(ds) > -e
             THEN SubSeq(ds, 1, Len(ds) + e) \o <<".">> \o SubSeq(ds, Len(ds) + e + 1, Len(ds))
             ELSE <<"0", ".">> \o Zeros(-e - Len(ds)) \o ds

(***************************************************************************)
(* src/nist_lookup/materials.py: the registry kept in materials.dat.       *)
(***************************************************************************)

\* The file materials.dat: whether it exists, and its characters.
NoFile == [exists |-> FALSE, data |-> <<>>]

NoDensity == [k |-> "none", n |-> 0, d |-> 1, e |-> 0, u |-> NoUnit]

EmptyDict == [x \in {} |-> <<>>]

\* The loop of get_materials over the lines read; mat is the dictionary so far.
RECURSIVE MaterialsLoop(_, _, _)
MaterialsLoop(lines, i, mat) ==
    IF i > Len(lines) THEN Ok(mat)
    ELSE LET line == strip(lines[i])
         IN  IF Len(line) > 2 /\ line[1] # "#"
             THEN LET parts == SplitOn(line, {"|"}, 1, <<>>)
                      name == strip(parts[1])
                      f == strip(parts[2])
                      den == float(strip(parts[3]))
                  IN  IF Len(parts) # 3 THEN Raise("ValueError")
                      ELSE IF den.err # "none" THEN Raise(den.err)
                      ELSE MaterialsLoop(lines, i + 1,
                               (lower(name) :> [formula |-> RemoveSpaces(f), density |-> den.val])
                               @@ mat)
             ELSE MaterialsLoop(lines, i + 1, mat)

get_materials(file) ==
    IF file.exists THEN MaterialsLoop(splitlines(file.data), 1, EmptyDict) ELSE Ok(EmptyDict)

\* dict.get(key, None)
DictGet(mat, key) ==
    IF key \in DOMAIN mat
    THEN [found |-> TRUE, formula |-> mat[key].formula, density |-> mat[key].density]
    ELSE [found |-> FALSE, formula |-> <<>>, density |-> NoDensity]

material_get(file, name) ==
    LET m == get_materials(file)
    IN  IF m.err # "none" THEN Raise(m.err) ELSE Ok(DictGet(m.val, lower(name)))

DefaultText ==
    << "#", " ", "user-specific database of materials", "\n",
       "#", " ", "name, formula, density", "\n" >>

\* The line material_add appends: " %s | %s | %g\n" % (name, formula, density).
AddedLine(name, formula, dens) ==
    <<" ">> \o name \o <<" ", "|", " ">> \o RemoveSpaces(formula) \o <<" ", "|", " ">>
    \o FormatG(dens) \o <<"\n">>

\* material_add(name, formula, density): the file it leaves, or the exception.
material_add(file, name, formula, dens) ==
    LET m == get_materials(file)
        txt == IF file.exists THEN file.data ELSE DefaultText
    IN  IF m.err # "none" THEN Raise(m.err)
        ELSE Ok([exists |-> TRUE, data |-> txt \o AddedLine(name, formula, dens)])

(***************************************************************************)
(* The formula parser and the atomic data: collaborators of the            *)
(* aggregation, on the elements and the formula alphabet of the model.     *)
(***************************************************************************)

Upper == {"H", "O"}
LowerCase == {"e", "a"}
NumberChars == {"0", "1", "2", "3", "4", "5", "6", "7", "8", "9", "."}

KnownElements == {<<"H">>, <<"O">>}

\* The end of the run of lexemes of S that starts at i.
RECURSIVE RunEnd(_, _, _)
RunEnd(s, S, i) == IF i <= Len(s) /\ s[i] \in S THEN RunEnd(s, S, i + 1) ELSE i

\* comp with n more of sym: summed into its entry, or a new last entry.
AddSymbol(comp, sym, n) ==
    IF \E j \in 1..Len(comp) : comp[j].sym = sym
    THEN [j \in 1..Len(comp) |->
             IF comp[j].sym = sym THEN [sym |-> sym, n |-> Add(comp[j].n, n)] ELSE comp[j]]
    ELSE Append(comp, [sym |-> sym, n |-> n])

\* An element is an upper-case letter and at most one lower-case letter; a
\* number after it is its multiplier, 1 by default; the coefficients of a
\* repeated symbol are summed.
RECURSIVE ParseFormula(_, _, _)
ParseFormula(s, i, comp) ==
    IF i > Len(s) THEN Ok(comp)
    ELSE IF s[i] \notin Upper THEN Raise("FormulaError")
    ELSE LET j == IF i + 1 <= Len(s) /\ s[i + 1] \in LowerCase THEN i + 2 ELSE i + 1
             sym == SubSeq(s, i, j - 1)
             k == RunEnd(s, NumberChars, j)
             mult == IF k = j THEN Ok(Int2Num(1)) ELSE float(SubSeq(s, j, k - 1))
         IN  IF sym \notin KnownElements \/ mult.err # "none" THEN Raise("FormulaError")
             ELSE ParseFormula(s, k, AddSymbol(comp, sym, mult.val))

\* chemparse(formula): the composition, as the dictionary's items in order.
chemparse(formula) ==
    IF formula = <<>> THEN Raise("FormulaError") ELSE ParseFormula(formula, 1, <<>>)

\* atomic_mass(symbol), in the tables' units.
atomic_mass(sym) == IF sym = <<"H">> THEN Int2Num(1) ELSE Int2Num(16)

\* mu_elam(symbol, energy, kind): a table of the provider, per energy and kind.
mu_elam(sym, energy, kind) ==
    LET base == IF sym = <<"H">> THEN 2 ELSE 5
        photo == IF kind = "photo" THEN 1 ELSE 0
    IN  Fin(10 * base - 2 * photo, energy, 0, NoUnit)

(***************************************************************************)
(* src/nist_lookup/materials.py: the aggregation.                          *)
(***************************************************************************)

\* The first lines of material_mu and material_mu_components: the formula and
\* the density the rest works with, or the exception.
Resolve(file, name, dens) ==
    LET m == get_materials(file)
        mater == DictGet(m.val, lower(name))
    IN  IF m.err # "none" THEN Raise(m.err)
        ELSE IF ~mater.found
             THEN IF dens = NoDensity THEN Raise("Warning")
                  ELSE Ok([formula |-> name, density |-> dens])
             ELSE Ok([formula |-> mater.formula, density |-> mater.density])

\* The loop of material_mu: <<mass_tot, mu>> after the items from i on.
RECURSIVE MuLoop(_, _, _, _, _, _)
MuLoop(comp, i, energy, kind, mass_tot, mu) ==
    IF i > Len(comp) THEN <<mass_tot, mu>>
    ELSE LET mass == Mul(comp[i].n, atomic_mass(comp[i].sym))
         IN  MuLoop(comp, i + 1, energy, kind, Add(mass_tot, mass),
                    Add(mu, Mul(mass, mu_elam(comp[i].sym, energy, kind))))

material_mu(file, name, energy, dens, kind) ==
    LET r == Resolve(file, name, dens)
        comp == chemparse(r.val.formula)
        s == MuLoop(comp.val, 1, energy, kind, Zero, Zero)
    IN  IF r.err # "none" THEN Raise(r.err)
        ELSE IF comp.err # "none" THEN Raise(comp.err)
        ELSE IF IsZero(s[1]) THEN Raise("ZeroDivisionError")
        ELSE Ok(Div(Mul(r.val.density, s[2]), s[1]))

\* ComponentsLoop adding the atomic mass to 'mass' without the fraction.
RECURSIVE ComponentsLoopNoFrac(_, _, _, _, _)
ComponentsLoopNoFrac(comp, i, energy, kind, out) ==
    IF i > Len(comp) THEN out
    ELSE LET atom == comp[i].sym
             frac == comp[i].n
             mass == atomic_mass(atom)
             mu == mu_elam(atom, energy, kind)
         IN  ComponentsLoopNoFrac(comp, i + 1, energy, kind,
                 [out EXCEPT !.mass = Add(@, mass),
                             !.items = (atom :> [frac |-> frac, mass |-> mass, mu |-> mu]) @@ @,
                             !.elements = Append(@, atom)])

\* The loop of material_mu_components; out holds 'mass', 'density', 'elements'
\* and, under items, the entry of each atom.
RECURSIVE ComponentsLoop(_, _, _, _, _)
ComponentsLoop(comp, i, energy, kind, out) ==
    IF i > Len(comp) THEN out
    ELSE LET atom == comp[i].sym
             frac == comp[i].n
             mass == atomic_mass(atom)
             mu == mu_elam(atom, energy, kind)
         IN  ComponentsLoop(comp, i + 1, energy, kind,
                 [out EXCEPT !.mass = Add(@, Mul(frac, mass)),
                             !.items = (atom :> [frac |-> frac, mass |-> mass, mu |-> mu]) @@ @,
                             !.elements = Append(@, atom)])

material_mu_components(file, name, energy, dens, kind) ==
    LET r == Resolve(file, name, dens)
        comp == chemparse(r.val.formula)
    IN  IF r.err # "none" THEN Raise(r.err)
        ELSE IF comp.err # "none" THEN Raise(comp.err)
        ELSE Ok(ComponentsLoop(comp.val, 1, energy, kind,
                    [mass |-> Zero, density |-> r.val.density, elements |-> <<>>,
                     items |-> EmptyDict]))

\* Bound of the model: the calls of material_add in one run.
MaxAdds == 2

Names == { <<"W", "a">>, <<"w", "A">>, <<"F", "e">>, <<"a", "|", "b">> }
Formulas == { <<"H", "2", " ", "O">>, <<"O", "H", "O", "3">> }
Densities == { Fin(265, 1, -2, NoUnit), Fin(1234567, 1, -6, NoUnit) }
GetNames == Names \cup { <<"W", "A">> }
MuNames == { <<"W", "A">>, <<"F", "e">>, <<"H", "2", "O">>, <<"O", "2">> }
MuDensities == { NoDensity, Int2Num(3) }
MuEnergies == {1, 2}
Kinds == {"total", "photo"}

Call(op, name, formula, dens, energy, kind, r) ==
    [op |-> op, name |-> name, formula |-> formula, density |-> dens, energy |-> energy,
     kind |-> kind, err |-> r.err, val |-> r.val]

NoCall == [op |-> "none"]

\* Each call below is made by a caller that holds no earlier result.
MaterialAdd ==
    /\ ret.op = "none"
    /\ Len(adds) < MaxAdds
    /\ \E name \in Names, formula \in Formulas, dens \in Densities :
          LET r == material_add(store, name, formula, dens)
          IN  /\ store' = IF r.err = "none" THEN r.val ELSE store
              /\ adds' = IF r.err = "none"
                         THEN Append(adds, [name |-> name, formula |-> formula, density |-> dens])
                         ELSE adds
              /\ ret' = Call("material_add", name, formula, dens, 0, "", Raise(r.err))

MaterialGet ==
    /\ ret.op = "none"
    /\ \E name \in GetNames :
          ret' = Call("material_get", name, <<>>, NoDensity, 0, "", material_get(store, name))
    /\ UNCHANGED <<store, adds>>

MaterialMu ==
    /\ ret.op = "none"
    /\ \E name \in MuNames, energy \in MuEnergies, dens \in MuDensities, kind \in Kinds :
          ret' = Call("material_mu", name, <<>>, dens, energy, kind,
                      material_mu(store, name, energy, dens, kind))
    /\ UNCHANGED <<store, adds>>

MaterialMuComponents ==
    /\ ret.op = "none"
    /\ \E name \in MuNames, energy \in MuEnergies, dens \in MuDensities, kind \in Kinds :
          ret' = Call("material_mu_components", name, <<>>, dens, energy, kind,
                      material_mu_components(store, name, energy, dens, kind))
    /\ UNCHANGED <<store, adds>>

\* The caller is done with the value returned.
Return ==
    /\ ret.op # "none"
    /\ ret' = NoCall
    /\ UNCHANGED <<store, adds>>

MatInit ==
    /\ store = NoFile
    /\ adds = <<>>
    /\ ret = NoCall

(***************************************************************************)
(* material_add called by independent processes on one materials.dat:      *)
(* each statement of material_add that goes to the file is one step.       *)
(***************************************************************************)

Procs == {1, 2}

AddNames == { <<"F", "e">>, <<"W", "a">>, <<"a", "|", "b">> }

\* No process has called material_add yet.
NoneCalled == [p \in Procs |-> [pc |-> "idle"]]

\* The line the call of process p appends to the text it has read.
LineOf(p) == AddedLine(procs[p].name, procs[p].formula, procs[p].density)

\* materials.py:119: the call begins with get_materials(), which reads the
\* file and may raise; seen keeps where the other processes are at this time.
AddGetMaterials ==
    /\ \E p \in Procs, name \in AddNames, formula \in Formulas, dens \in Densities :
          /\ procs[p].pc = "idle"
          /\ \E m \in {get_materials(store)} :
                procs' = [procs EXCEPT ![p] =
                             [pc |-> IF m.err = "none" THEN "read" ELSE "raised",
                              name |-> name, formula |-> formula, density |-> dens,
                              text |-> <<>>, err |-> m.err,
                              seen |-> [q \in Procs |-> procs[q].pc]]]
    /\ UNCHANGED store

\* materials.py:124-132: the lines of the file, or the default head when
\* there is no file, with the new line appended.
AddReadLines ==
    /\ \E p \in Procs :
          /\ procs[p].pc = "read"
          /\ procs' = [procs EXCEPT ![p].pc = "opening",
                                    ![p].text = (IF store.exists THEN store.data
                                                 ELSE DefaultText) \o LineOf(p)]
    /\ UNCHANGED store

\* materials.py:134: open(fname, 'w') makes the file or cuts it to length 0.
AddOpen ==
    \E p \in Procs :
        /\ procs[p].pc = "opening"
        /\ store' = [exists |-> TRUE, data |-> <<>>]
        /\ procs' = [procs EXCEPT ![p].pc = "writing"]

\* A write that puts only the new line into the file.
AddWriteLineOnly ==
    \E p \in Procs :
        /\ procs[p].pc = "writing"
        /\ store' = [exists |-> TRUE, data |-> LineOf(p)]
        /\ procs' = [procs EXCEPT ![p].pc = "done"]

\* materials.py:135-136: the text goes into the file from its first place
\* on; what the file holds beyond the end of the text stays.
AddWrite ==
    \E p \in Procs :
        /\ procs[p].pc = "writing"
        /\ store' = [exists |-> TRUE,
                     data |-> procs[p].text
                              \o SubSeq(store.data, Len(procs[p].text) + 1, Len(store.data))]
        /\ procs' = [procs EXCEPT ![p].pc = "done"]

(***************************************************************************)
(* src/nist_lookup/xraydb_plugin.py: xray_delta_beta.                      *)
(*                                                                         *)
(* The provider (xrayDB) is a collaborator: xdb says which tables it holds *)
(* and whether its values are Python floats, whose division by zero raises *)
(* ZeroDivisionError, or numpy floats, whose division by zero is inf/nan.  *)
(***************************************************************************)

AVOGADRO == Sym("N_A")
R_ELECTRON_CM == Mul(Sym("r_e"), Int2Num(100))
PLANCK_HC == Sym("hc")
pi == Sym("pi")

Providers == [tables : {"plain", "f2zero", "muzero"}, numeric : {"float", "numpy"}]

atomic_number(sym) == IF sym = <<"H">> THEN 1 ELSE 8

\* chantler_data(symbol, energy, column): the provider's tables.
chantler_data(db, sym, energy, column) ==
    LET h == sym = <<"H">>
    IN  CASE column = "f1" -> Int2Num(IF h THEN 0 ELSE energy)
          [] column = "f2" -> IF db.tables = "plain" THEN Int2Num(IF h THEN 1 ELSE 2 * energy)
                              ELSE Zero
          [] column = "mu_photo" -> IF db.tables = "muzero" THEN Zero
                                    ELSE Int2Num(IF h THEN 2 ELSE 4)
          [] column = "mu_total" -> Int2Num(IF h THEN 3 ELSE 5)

\* a / b as the provider's number type divides.
PyDiv(db, a, b) ==
    IF ~IsZero(b) THEN Ok(Div(a, b))
    ELSE IF db.numeric = "float" THEN Raise("ZeroDivisionError")
    ELSE IF IsZero(a) \/ a.k = "nan" THEN Ok(NaN)
    ELSE Ok(Inf(Sign(a)))

\* Scatterer(symbol, energy)
Scatterer(db, sym, energy) ==
    [symbol |-> sym,
     number |-> atomic_number(sym),
     mass |-> atomic_mass(sym),
     f1 |-> Add(chantler_data(db, sym, energy, "f1"), Int2Num(atomic_number(sym))),
     f2 |-> chantler_data(db, sym, energy, "f2"),
     mu_photo |-> chantler_data(db, sym, energy, "mu_photo"),
     mu_total |-> chantler_data(db, sym, energy, "mu_total")]

\* ScatLoop adding each element's mass to total_mass once, whatever its count.
RECURSIVE ScatLoopMassOnce(_, _, _, _, _)
ScatLoopMassOnce(db, elements, i, dens, acc) ==
    IF i > Len(elements) THEN Ok(acc)
    ELSE LET number == elements[i][1]
             scat == elements[i][2]
             weight == Mul(Mul(dens, number), AVOGADRO)
             ratio == PyDiv(db, scat.mu_total, scat.mu_photo)
         IN  IF ratio.err # "none" THEN Raise(ratio.err)
             ELSE ScatLoopMassOnce(db, elements, i + 1, dens,
                      [total_mass |-> Add(acc.total_mass, scat.mass),
                       delta |-> Add(acc.delta, Mul(weight, scat.f1)),
                       beta_photo |-> Add(acc.beta_photo, Mul(weight, scat.f2)),
                       beta_total |-> Add(acc.beta_total, Mul(Mul(weight, scat.f2), ratio.val))])

\* The accumulation loop of xray_delta_beta over elements from i on.
RECURSIVE ScatLoop(_, _, _, _, _)
ScatLoop(db, elements, i, dens, acc) ==
    IF i > Len(elements) THEN Ok(acc)
    ELSE LET number == elements[i][1]
             scat == elements[i][2]
             weight == Mul(Mul(dens, number), AVOGADRO)
             ratio == PyDiv(db, scat.mu_total, scat.mu_photo)
         IN  IF ratio.err # "none" THEN Raise(ratio.err)
             ELSE ScatLoop(db, elements, i + 1, dens,
                      [total_mass |-> Add(acc.total_mass, Mul(number, scat.mass)),
                       delta |-> Add(acc.delta, Mul(weight, scat.f1)),
                       beta_photo |-> Add(acc.beta_photo, Mul(weight, scat.f2)),
                       beta_total |-> Add(acc.beta_total, Mul(Mul(weight, scat.f2), ratio.val))])

NoResult == [err |-> "none", delta |-> NaN, beta |-> NaN, atlen |-> NaN]

\* xray_delta_beta(material, density, energy, photo_only): the exception, and
\* delta, beta and the attenuation length as far as they were computed.
xray_delta_beta(db, material, dens, energy, photo_only) ==
    LET lamb_cm == Div(Mul(Pow10(-8), PLANCK_HC), Int2Num(energy))
        comp == chemparse(material)
        elements == [i \in 1..Len(comp.val) |->
                        <<comp.val[i].n, Scatterer(db, comp.val[i].sym, energy)>>]
        sums == ScatLoop(db, elements, 1, dens,
                    [total_mass |-> Zero, delta |-> Zero, beta_photo |-> Zero, beta_total |-> Zero])
        den == Mul(Mul(Int2Num(2), pi), sums.val.total_mass)
        scale == Div(Mul(Mul(lamb_cm, lamb_cm), R_ELECTRON_CM), den)
        delta == Mul(sums.val.delta, scale)
        beta == IF photo_only THEN Mul(sums.val.beta_photo, scale)
                ELSE Mul(sums.val.beta_total, scale)
        atlen == PyDiv(db, lamb_cm, Mul(Mul(Int2Num(4), pi), beta))
    IN  IF comp.err # "none" THEN [NoResult EXCEPT !.err = comp.err]
        ELSE IF sums.err # "none" THEN [NoResult EXCEPT !.err = sums.err]
        ELSE IF IsZero(den) THEN [NoResult EXCEPT !.err = "ZeroDivisionError"]
        ELSE [err |-> atlen.err, delta |-> delta, beta |-> beta,
              atlen |-> IF atlen.err = "none" THEN atlen.val ELSE NaN]

XMaterials == { <<"H", "2", "O">>, <<"H", "4", "O", "2">>, <<"O", "H">> }
XDensities == { Int2Num(1), Fin(25, 1, -1, NoUnit) }
XEnergies == {1, 2}

NoXCall == [called |-> FALSE]

\* A call of xray_delta_beta; the model keeps the last two.
XrayDeltaBeta ==
    /\ \E material \in XMaterials, dens \in XDensities, energy \in XEnergies, photo_only \in BOOLEAN :
          last' = [called |-> TRUE, material |-> material, density |-> dens, energy |-> energy,
                   photo_only |-> photo_only,
                   res |-> xray_delta_beta(xdb, material, dens, energy, photo_only)]
    /\ prev' = last
    /\ UNCHANGED xdb

XrayInit ==
    /\ xdb \in Providers
    /\ prev = NoXCall
    /\ last = NoXCall

XrayIdle ==
    /\ xdb = [tables |-> "plain", numeric |-> "float"]
    /\ prev = NoXCall
    /\ last = NoXCall

(***************************************************************************)
(* The specifications: one per component; the other components stay in     *)
(* their initial state.                                                    *)
(***************************************************************************)

Init == NistInit /\ MatInit /\ XrayIdle /\ gd = NoScan /\ procs = NoneCalled
Next ==
    \/ DownloadPage /\ UNCHANGED <<matVars, xrayVars, scanVars, addVars>>
    \/ CheckPage /\ UNCHANGED <<matVars, xrayVars, scanVars, addVars>>
    \/ ParseTable /\ UNCHANGED <<matVars, xrayVars, scanVars, addVars>>
    \/ GetDensity /\ UNCHANGED <<matVars, xrayVars, scanVars, addVars>>
    \/ CalculateCoefficients /\ UNCHANGED <<matVars, xrayVars, scanVars, addVars>>
    \/ GetGraph /\ UNCHANGED <<matVars, xrayVars, scanVars, addVars>>
Spec == Init /\ [][Next]_vars

MatNext ==
    \/ MaterialAdd /\ UNCHANGED <<nistVars, xrayVars, scanVars, addVars>>
    \/ MaterialGet /\ UNCHANGED <<nistVars, xrayVars, scanVars, addVars>>
    \/ MaterialMu /\ UNCHANGED <<nistVars, xrayVars, scanVars, addVars>>
    \/ MaterialMuComponents /\ UNCHANGED <<nistVars, xrayVars, scanVars, addVars>>
    \/ Return /\ UNCHANGED <<nistVars, xrayVars, scanVars, addVars>>
MatSpec == Init /\ [][MatNext]_vars

XrayInitAll == NistInit /\ MatInit /\ XrayInit /\ gd = NoScan /\ procs = NoneCalled
XrayNext == XrayDeltaBeta /\ UNCHANGED <<nistVars, matVars, scanVars, addVars>>
XraySpec == XrayInitAll /\ [][XrayNext]_vars

ConcNext ==
    \/ AddGetMaterials /\ UNCHANGED <<nistVars, adds, ret, xrayVars, scanVars>>
    \/ AddReadLines /\ UNCHANGED <<nistVars, adds, ret, xrayVars, scanVars>>
    \/ AddOpen /\ UNCHANGED <<nistVars, adds, ret, xrayVars, scanVars>>
    \/ AddWrite /\ UNCHANGED <<nistVars, adds, ret, xrayVars, scanVars>>
ConcSpec == Init /\ [][ConcNext]_vars

DensityInit == NistInit /\ MatInit /\ XrayIdle /\ ScanInit /\ procs = NoneCalled
DensityNext ==
    \/ ScanLine /\ UNCHANGED <<nistVars, matVars, xrayVars, addVars>>
    \/ ScanOver /\ UNCHANGED <<nistVars, matVars, xrayVars, addVars>>
    \/ CallItself /\ UNCHANGED <<nistVars, matVars, xrayVars, addVars>>
    \/ DepthExceeded /\ UNCHANGED <<nistVars, matVars, xrayVars, addVars>>
DensitySpec == DensityInit /\ [][DensityNext]_vars

(***************************************************************************)
(* The claims about the NIST pipeline, checked under Spec.                 *)
(***************************************************************************)

\* The error marker stands at some place of t, letter by letter.
HasErrorMarker(t) ==
    \E i \in 1..Len(t) :
        /\ i + 4 <= Len(t)
        /\ t[i] = "E" /\ t[i + 1] = "r" /\ t[i + 2] = "r" /\ t[i + 3] = "o" /\ t[i + 4] = "r"

\* C1: check_page raises NistPageError if and only if the text holds the
\* error marker; without the marker it raises nothing; the text stays as it was.
C1_CheckPageRaisesIffMarker ==
    [][pc = "downloaded" =>
          /\ (error' = "NistPageError" /\ pc' = "failed") <=> HasErrorMarker(text)
          /\ ~HasErrorMarker(text) => (error' = "none" /\ pc' = "checked")
          /\ text' = text]_vars

\* check_page has raised on a text whose marker is not at its start.
C1_Witness ==
    /\ pc = "failed" /\ error = "NistPageError"
    /\ text[1] # "E" /\ Len(text) > Len(ErrorMarker)

\* The data rows of the first table of t: the rows with data cells, each as its cells.
DataRows(t) ==
    LET tables == findAll(t, "<table>", "</table>", 1)
        rows == IF tables = <<>> THEN <<>> ELSE findAll(tables[1], "<tr>", "</tr>", 1)
        cells == [j \in 1..Len(rows) |-> findAll(rows[j], "<td>", "</td>", 1)]
    IN  SelectSeq(cells, LAMBDA c : c # <<>>)

\* C8: parse_table returns one row per data row of the input, in input order,
\* each of four fields: the first three cells and the last.
C8_OneRowPerDataRow ==
    pc \in {"parsed", "density", "done"} =>
        LET rows == DataRows(text)
        IN  /\ Len(table) = Len(rows)
            /\ \A i \in 1..Len(rows) :
                  table[i] = <<rows[i][1], rows[i][2], rows[i][3], rows[i][Len(rows[i])]>>

\* No line of t holds the density marker.
NoDensityLine(t) ==
    \A i \in 1..Len(splitlines(t)) : ~IsIn(DensityMarker, splitlines(t)[i])

\* C9: get_density fails with ParseError when no line holds the density marker.
C9_ParseErrorWithoutDensityLine ==
    [][(pc = "parsed" /\ NoDensityLine(text)) => (pc' = "failed" /\ error' = "ParseError")]_vars

\* The lines of the printed table that carry numbers, each as its numbers.
NumberLines(out) ==
    LET lines == SplitOn(out, {Txt("\n")}, 1, <<>>)
        nums == [i \in 1..Len(lines) |-> SelectSeq(lines[i], LAMBDA x : x.t = "num")]
    IN  SelectSeq(nums, LAMBDA l : l # <<>>)

\* r_e / (2 pi) * atoms_per_unit_volume * (wavelength * 1e-7)^2 * f, for one row.
ExpectedCoefficient(row, dens, f) ==
    LET lambda_cm == Mul(float(row[4]).val, Pow10(-7))
        numerator == Mul(Mul(Mul(Sym("r_e"), Pow10(2)), dens), Mul(f, Mul(lambda_cm, lambda_cm)))
    IN  Div(numerator, Mul(Int2Num(2), Sym("pi")))

\* C10: calculate_coefficients prints, for every row of the table, delta =
\* factor * lambda_cm^2 * f1 and beta = factor * lambda_cm^2 * f2 of that row,
\* with lambda_cm = wavelength * 1e-7 and factor = r_e / (2 pi) * atoms_per_unit_volume.
C10_DeltaBetaPerRow ==
    pc = "done" =>
        LET lines == NumberLines(output)
        IN  /\ Len(lines) = Len(table)
            /\ \A i \in 1..Len(table) :
                  /\ Len(lines[i]) = 6
                  /\ lines[i][5].v = ExpectedCoefficient(table[i], density, float(table[i][2]).val)
                  /\ lines[i][6].v = ExpectedCoefficient(table[i], density, float(table[i][3]).val)

\* A table of rows that differ has been printed.
C10_Witness ==
    /\ pc = "done"
    /\ \E i, j \in 1..Len(table) : table[i][4] # table[j][4]

\* C11: the printed table is the comment header followed by one line per table
\* entry, in table order, each of six numbers (energy, f1, f2, wavelength,
\* delta, beta); from the page to the printed table, there are as many data
\* lines as the table of the page has data rows.
C11_OneLinePerDataRow ==
    pc = "done" =>
        LET lines == NumberLines(output)
        IN  /\ SubSeq(output, 1, Len(Header)) = Header
            /\ Len(lines) = Len(table)
            /\ \A i \in 1..Len(lines) :
                  /\ Len(lines[i]) = 6
                  /\ \A c \in 1..4 : lines[i][c].v = float(table[i][c]).val
            /\ Len(lines) = Len(DataRows(text))

\* The energies of the table rows.
TableEnergies == {float(table[i][1]).val : i \in 1..Len(table)}

\* x lies between the least and the greatest energy of the table.
InDomain(x) ==
    /\ \E e \in TableEnergies : ~Less(x, e)
    /\ \E e \in TableEnergies : ~Less(e, x)

\* C12: the delta and the beta interpolant of a table with rows return a value
\* for every energy between the least and the greatest energy of the table,
\* and fail with DomainError for every other energy.
C12_DomainErrorOutsideTable ==
    (graph.called /\ table # <<>>) =>
        IF InDomain(graph.x) THEN graph.err = "none" ELSE graph.err = "DomainError"

\* The places of get_formatted_table, in the order of its steps: before the
\* fetch, and after fetch, validate, parse, extract_density and
\* compute_optical_columns with serialize.
Steps == <<"start", "downloaded", "checked", "parsed", "density", "done">>

\* C13: get_formatted_table runs fetch, validate, parse, extract_density and
\* compute_optical_columns with serialize in this order; a step runs only at
\* its place, a step that raises ends the run, and a run that has raised has
\* no formatted table.
C13_StepsInOrder ==
    [][/\ (table' # table \/ density' # density \/ output' # output \/ error' # error)
            => pc' # pc
       /\ pc' # pc =>
            /\ \E i \in 1..(Len(Steps) - 1) : pc = Steps[i] /\ pc' \in {Steps[i + 1], "failed"}
            /\ (pc' = "failed") <=> (error' # "none")
            /\ pc' = "failed" => output' = <<>>
            /\ table' # table => pc = "checked"
            /\ density' # density => pc = "parsed"
            /\ output' # output => (pc = "density" /\ pc' = "done")]_vars

\* validate has raised on a page that holds a density line and a table with
\* data rows: nothing was parsed and nothing was printed.
C13_Witness ==
    /\ pc = "failed" /\ error = "NistPageError"
    /\ DataRows(text) # <<>> /\ ~NoDensityLine(text)
    /\ table = <<>> /\ density = Zero /\ output = <<>>

\* C15 (under DensitySpec): get_density(text) ends on every text after one
\* scan of its lines, by a return or by an exception: it takes at most one
\* step per line and one more, each step but the last moves on by one line,
\* and it never has a second frame of itself on the stack.
C15_EndsWithoutCallingItself ==
    /\ gd.depth <= 1
    /\ gd.turns <= Len(gd.lines) + 1
    /\ gd.i <= Len(gd.lines) + 1
    /\ gd.turns \in {gd.i - 1, gd.i}
    /\ gd.turns = gd.i => gd.status \in {"returned", "raised"}

(***************************************************************************)
(* The claims about the registry and the aggregation, checked under        *)
(* MatSpec.                                                                *)
(***************************************************************************)

LastAdd == adds[Len(adds)]

NoWhitespace(s) == SelectSeq(s, LAMBDA c : c \notin Whitespace)

\* The calls of material_add so far whose name is n up to letter case.
Matching(n) == {i \in 1..Len(adds) : lower(adds[i].name) = lower(n)}

Latest(S) == CHOOSE i \in S : \A j \in S : j <= i

\* C2: material_get(n) after material_add(name, formula, density), n equal to
\* name up to letter case, returns (formula without whitespace, density).
C2_GetAfterAdd ==
    (ret.op = "material_get" /\ adds # <<>> /\ lower(ret.name) = lower(LastAdd.name)) =>
        /\ ret.err = "none"
        /\ ret.val.found
        /\ ret.val.formula = NoWhitespace(LastAdd.formula)
        /\ ret.val.density = LastAdd.density

\* C3: material_get(n) returns the formula and the density of the latest
\* material_add whose name is n up to letter case, and none when there is none.
C3_LastWriteWins ==
    ret.op = "material_get" =>
        /\ ret.err = "none"
        /\ IF Matching(ret.name) = {} THEN ~ret.val.found
           ELSE LET a == adds[Latest(Matching(ret.name))]
                IN  /\ ret.val.found
                    /\ ret.val.formula = NoWhitespace(a.formula)
                    /\ ret.val.density = a.density

\* C4: material_mu and material_mu_components, for a name that is not in the
\* registry and without a density, fail with MissingDensityError.
C4_MissingDensityError ==
    (/\ ret.op \in {"material_mu", "material_mu_components"}
     /\ Matching(ret.name) = {}
     /\ ret.density = NoDensity) => ret.err = "MissingDensityError"

RECURSIVE SumMasses(_, _, _)
SumMasses(out, i, acc) ==
    IF i > Len(out.elements) THEN acc
    ELSE LET entry == out.items[out.elements[i]]
         IN  SumMasses(out, i + 1, Add(acc, Mul(entry.frac, entry.mass)))

\* The formula material_mu_components works with: the registry's, or the name.
FormulaOf(n) ==
    IF Matching(n) = {} THEN n ELSE NoWhitespace(adds[Latest(Matching(n))].formula)

\* The element symbols that stand in formula f.
SymbolsIn(f) == {SubSeq(f, i, i) : i \in {j \in 1..Len(f) : f[j] \in Upper}}

\* C7: in the result of material_mu_components, 'mass' is the sum over the
\* listed elements of fraction * atomic_mass of the element's own entry, and
\* 'elements' lists each symbol of the composition exactly once.
C7_MassIsSumOfEntries ==
    (ret.op = "material_mu_components" /\ ret.err = "none") =>
        LET out == ret.val
        IN  /\ out.mass = SumMasses(out, 1, Zero)
            /\ \A i, j \in 1..Len(out.elements) : out.elements[i] = out.elements[j] => i = j
            /\ {out.elements[i] : i \in 1..Len(out.elements)} = SymbolsIn(FormulaOf(ret.name))
            /\ DOMAIN out.items = SymbolsIn(FormulaOf(ret.name))

\* The components of a registered material whose formula repeats a symbol.
C7_Witness ==
    /\ ret.op = "material_mu_components" /\ ret.err = "none"
    /\ Matching(ret.name) # {}
    /\ Len(ret.val.elements) = 2
    /\ \E a \in DOMAIN ret.val.items : ret.val.items[a].frac = Int2Num(4)

\* The density a call of material_mu or material_mu_components is to work
\* with: the caller's when one is passed, the registry's otherwise.
DensityToUse(name, dens) ==
    IF dens # NoDensity THEN dens ELSE material_get(store, name).val.density

\* density * mu_sum / mass_sum over the composition of formula f.
ExpectedMu(f, dens, energy, kind) ==
    LET s == MuLoop(chemparse(f).val, 1, energy, kind, Zero, Zero)
    IN  Div(Mul(dens, s[2]), s[1])

\* C14: material_mu and material_mu_components work with the density the
\* caller passes, also for a registered material, and with the registry's
\* density only when the caller passes none; material_mu_components reports
\* that density under 'density'.
C14_CallerDensityUsed ==
    (ret.op \in {"material_mu", "material_mu_components"} /\ ret.err = "none") =>
        LET used == DensityToUse(ret.name, ret.density)
        IN  IF ret.op = "material_mu"
            THEN ret.val = ExpectedMu(FormulaOf(ret.name), used, ret.energy, ret.kind)
            ELSE ret.val.density = used

\* The density as the store holds it: written with %g and read with float.
Stored(dens) == float(FormatG(dens)).val

\* C17: after any calls of material_add, with names that hold '|' too, every
\* material_get returns without raising, and a name added before is still
\* found with its formula and with the density its line holds.
C17_StoreStaysReadable ==
    ret.op = "material_get" =>
        /\ ret.err = "none"
        /\ \A i \in Matching(ret.name) :
              i = Latest(Matching(ret.name)) =>
                  /\ ret.val.found
                  /\ ret.val.formula = NoWhitespace(adds[i].formula)
                  /\ ret.val.density = Stored(adds[i].density)

(***************************************************************************)
(* The claims about material_add in two processes, checked under ConcSpec. *)
(***************************************************************************)

AllDone == \A p \in Procs : procs[p].pc = "done"

\* The calls came one after the other: of any two, one began when the
\* other had ended.
Serial ==
    \A p, q \in Procs : p # q => (procs[p].seen[q] = "done" \/ procs[q].seen[p] = "done")

\* material_add taken whole: the call of q, then the call of p.
OneThenOther(q, p) ==
    material_add(material_add(NoFile, procs[q].name, procs[q].formula, procs[q].density).val,
                 procs[p].name, procs[p].formula, procs[p].density).val

\* C16: when the two calls of material_add come one after the other and
\* both return, the store keeps both added lines: it is the store that
\* material_add taken whole leaves, the head and the two lines in the order
\* of the calls. (Its witness is the other half of the claim: calls that
\* overlap can leave a store with only one of the two lines.)
C16_SerialKeepsBoth ==
    (AllDone /\ Serial) =>
        \A p, q \in Procs :
            (p # q /\ procs[p].seen[q] = "done") =>
                /\ store = OneThenOther(q, p)
                /\ store.data = DefaultText \o LineOf(q) \o LineOf(p)
                /\ IsIn(LineOf(q), store.data) /\ IsIn(LineOf(p), store.data)

\* C16, the lost update: both calls have returned, they overlapped, and the
\* store holds the line of one and not the line of the other.
C16_LostUpdate ==
    /\ AllDone
    /\ ~Serial
    /\ \E p, q \in Procs :
          /\ store.data = DefaultText \o LineOf(p)
          /\ ~IsIn(LineOf(q), store.data)

(***************************************************************************)
(* The claims about xray_delta_beta, checked under XraySpec.               *)
(***************************************************************************)

\* C5: xray_delta_beta returns positive infinity as the attenuation length
\* whenever the beta it computed is zero; it raises no division fault there.
C5_InfiniteAttenuationLength ==
    (last.called /\ IsZero(last.res.beta)) =>
        (last.res.err = "none" /\ last.res.atlen = Inf(1))

\* The compositions of formulas a and b hold the same symbols, in proportion.
Proportional(a, b) ==
    LET ca == chemparse(a)
        cb == chemparse(b)
    IN  /\ ca.err = "none" /\ cb.err = "none"
        /\ {ca.val[i].sym : i \in 1..Len(ca.val)} = {cb.val[j].sym : j \in 1..Len(cb.val)}
        /\ \A i, k \in 1..Len(ca.val), j, l \in 1..Len(cb.val) :
              (ca.val[i].sym = cb.val[j].sym /\ ca.val[k].sym = cb.val[l].sym) =>
                  Mul(ca.val[i].n, cb.val[l].n) = Mul(ca.val[k].n, cb.val[j].n)

\* C6: two calls of xray_delta_beta on the same density and energy, whose
\* compositions differ by a positive factor only, give the same delta, beta and
\* attenuation length.
C6_ScaleInvariance ==
    (/\ prev.called /\ last.called
     /\ prev.density = last.density
     /\ prev.energy = last.energy
     /\ prev.photo_only = last.photo_only
     /\ Proportional(prev.material, last.material)) => last.res = prev.res

\* H2O and then H4O2 have been computed, on the same density and energy.
C6_Witness ==
    /\ prev.called /\ last.called
    /\ prev.material = <<"H", "2", "O">> /\ last.material = <<"H", "4", "O", "2">>
    /\ prev.density = last.density /\ prev.energy = last.energy
    /\ prev.photo_only = last.photo_only
    /\ last.res.err = "none" /\ last.res.beta.k = "fin" /\ ~IsZero(last.res.beta)

====
